---- MODULE Spec2Model ----
(***************************************************************************)
(* A model of src/data/DataTools.js of HugeCSV: the row tokenizer          *)
(* (readRow), the chunk boundary resolver (sliceFile), the column profiler *)
(* (analyzeBlobs), the streaming iterator (iterateBlobs), the binary       *)
(* encoder (binaryChunksFromBlobs) and the merge engine                    *)
(* (mergeChunksIntoBuffer).                                                *)
(*                                                                         *)
(* Each operation has its own specification (Spec, SpecIterOK, SpecRow,    *)
(* SpecSlice, SpecAnalyze, SpecBinary, SpecMerge); SpecFanOut runs any one *)
(* of the four operations that await all their tasks.  All of them share   *)
(* the variables below; a specification leaves the variables of the other  *)
(* operations at their idle values ("off": the operation is never called). *)
(*                                                                         *)
(* Offsets and indices are zero-based as in the source; a TLA+ sequence s  *)
(* holds the element of index i at s[i + 1].                               *)
(***************************************************************************)
EXTENDS Integers, Sequences, FiniteSets, TLC

(***************************************************************************)
(* Bounds of the model.                                                    *)
(***************************************************************************)
MaxBlobs == 3
MaxRows == 2
MaxWorkers == 3
MaxViewLen == 7
MaxFileLen == 5
MaxChunkSize == 3
MaxRowSize == 3
MaxAnChunks == 3
MaxChunkRows == 1
MaxBnChunks == 2
MaxTotalRows == 3
MaxMergeCalls == 2

(***************************************************************************)
(* iterateBlobs: state of one call.                                        *)
(*   blobs      the chunk list; blobs[k + 1] is the rowCount of the chunk  *)
(*              that DataChunk.fromLoadResult builds for index k           *)
(*   workers    workerPool.workers.length                                  *)
(*   itPc       "idle" before the call, "running" once the executor ran    *)
(*   tasks      the queue of task options not yet dispatched (by index)    *)
(*   scheduled  every options value handed to scheduleTask, in order       *)
(*   inflight   positions of scheduled whose promise is still pending      *)
(*   failed     positions of scheduled whose promise rejected              *)
(*   results    keys of the out-of-order buffer `results`                  *)
(*   blobIndex  next expected chunk index                                  *)
(*   index      global row index                                           *)
(*   calls      the invocations of itr made so far                         *)
(*   events     what was done to the DataChunk objects so far, in order:   *)
(*              "materialize" (DataChunk.fromLoadResult), "row" (itr is    *)
(*              handed a row of it), "unload" (chunk.unload())             *)
(*   status     state of the promise iterateBlobs returns                  *)
(*   callsAtResolve  Len(calls) when resolve() was first called, else -1   *)
(***************************************************************************)
VARIABLES blobs, workers, itPc, tasks, scheduled, inflight, failed, results,
          blobIndex, index, calls, events, status, callsAtResolve

itVars == <<blobs, workers, itPc, tasks, scheduled, inflight, failed, results,
            blobIndex, index, calls, events, status, callsAtResolve>>

(***************************************************************************)
(* readRow: the byte view being tokenized, the offset the next call starts *)
(* at, what the last call did (from = -1 before the first call), and the   *)
(* number of calls made.                                                   *)
(***************************************************************************)
VARIABLES view, rowOffset, rowCall, rowCalls

rowVars == <<view, rowOffset, rowCall, rowCalls>>

(***************************************************************************)
(* sliceFile: state of one call.                                           *)
(*   file        the bytes of the source                                   *)
(*   start       the offset slicing starts at (readHeader's offset)        *)
(*   chunkSize, maxRowSize   config.chunkSize, config.maxRowSize           *)
(*   slPc        "idle", "awaiting" (at Promise.all), "done", "rejected"   *)
(*   offsets     the array `offsets`                                       *)
(*   slPending   indices of the calculateOffsets tasks still pending       *)
(*   slFailed    indices of the calculateOffsets tasks that rejected       *)
(*   sliceBlobs  the returned list `blobs`, as byte ranges of file         *)
(***************************************************************************)
VARIABLES file, start, chunkSize, maxRowSize, slPc, offsets, slPending,
          slFailed, sliceBlobs

slVars == <<file, start, chunkSize, maxRowSize, slPc, offsets, slPending,
            slFailed, sliceBlobs>>

(***************************************************************************)
(* analyzeBlobs: state of one call.                                        *)
(*   anBlobs     what the parseBlob task of each chunk returns (by index): *)
(*               stats and the flat column metadata `columns`              *)
(*   header      the ColumnStat list readHeader built, folded in place     *)
(*   aggregated  {rowCount, malformedRows}                                 *)
(*   anPc        "idle", "awaiting" (at Promise.all), "done", "rejected"   *)
(*   anPending, anFailed   indices of the tasks pending / rejected         *)
(*   anResults   the chunk indices in the order the fold walked `results`  *)
(*   chunks      the returned `chunks`: rowCount of the DataChunk by index *)
(***************************************************************************)
VARIABLES anBlobs, header, aggregated, anPc, anPending, anFailed, anResults, chunks

anVars == <<anBlobs, header, aggregated, anPc, anPending, anFailed, anResults, chunks>>

(***************************************************************************)
(* binaryChunksFromBlobs: state of one call.                               *)
(*   bnRows      the rows of the logical input: the encoded width of the   *)
(*               field of each column                                      *)
(*   bnBlobs     what the parseBlob task of each chunk returns (by index): *)
(*               header.rowCount, header.lengths, header.types,            *)
(*               header.order                                              *)
(*   bnPc        "idle", "awaiting" (at Promise.all), "done", "rejected"   *)
(*   bnPending, bnFailed   indices of the tasks pending / rejected         *)
(*   bnArrival   the indices of the tasks that fulfilled, in the order in  *)
(*               which they did                                            *)
(*   binaryHeader   the BinaryHeader returned                              *)
(*   bnChunks    the returned `chunks` (orderedResults): for each slot the *)
(*               index and header.rowCount of the result stored there      *)
(***************************************************************************)
VARIABLES bnRows, bnBlobs, bnPc, bnPending, bnArrival, bnFailed, binaryHeader,
          bnChunks

bnVars == <<bnRows, bnBlobs, bnPc, bnPending, bnArrival, bnFailed, binaryHeader,
            bnChunks>>

(***************************************************************************)
(* mergeChunksIntoBuffer: state of the current call (the header it shares  *)
(* with later calls is binaryHeader, the chunks are bnChunks).             *)
(*   supportsSharedMemory   the flag computed when the module loads        *)
(*   mgPc        "idle", "awaiting" (at the await), "done", "rejected"     *)
(*   mgCalls     number of calls made so far                               *)
(*   mgBuffer    the buffer of the call: its byteLength, whether it is a   *)
(*               SharedArrayBuffer, whether the engine allocated it        *)
(*   mgTasks     the options of the tasks the call dispatched              *)
(*   mgPending   positions of mgTasks whose promise is pending             *)
(*   mgFailed    positions of mgTasks whose promise rejected               *)
(*   written     for each byte of the buffer, how many tasks wrote it      *)
(***************************************************************************)
VARIABLES supportsSharedMemory, mgPc, mgCalls, mgBuffer, mgTasks, mgPending,
          mgFailed, written

mgVars == <<supportsSharedMemory, mgPc, mgCalls, mgBuffer, mgTasks, mgPending,
            mgFailed, written>>

vars == <<itVars, rowVars, slVars, anVars, bnVars, mgVars>>

\* What every specification but the iterator's leaves unchanged, and so on.
nonItVars == <<rowVars, slVars, anVars, bnVars, mgVars>>
nonRowVars == <<itVars, slVars, anVars, bnVars, mgVars>>
nonSlVars == <<itVars, rowVars, anVars, bnVars, mgVars>>
nonAnVars == <<itVars, rowVars, slVars, bnVars, mgVars>>
nonBnVars == <<itVars, rowVars, slVars, anVars, mgVars>>
nonMgVars == <<itVars, rowVars, slVars, anVars>>

\* tasks.shift() on an empty array: the options value `undefined`.
NoOptions == -1

Range(s) == {s[i] : i \in 1..Len(s)}

(***************************************************************************)
(* The locals of the promise executor of iterateBlobs, as one record, so   *)
(* that the synchronous handlers can be written as functions of it.        *)
(***************************************************************************)
ItState ==
    [tasks |-> tasks, scheduled |-> scheduled, inflight |-> inflight,
     results |-> results, blobIndex |-> blobIndex, index |-> index,
     calls |-> calls, events |-> events, status |-> status,
     callsAtResolve |-> callsAtResolve]

\* workerPool.scheduleTask('parseBlob', tasks.shift()).then(handleResult)
scheduleShift(s) ==
    LET opt == IF Len(s.tasks) > 0 THEN Head(s.tasks) ELSE NoOptions
        rest == IF Len(s.tasks) > 0 THEN Tail(s.tasks) ELSE s.tasks
    IN  [s EXCEPT !.tasks = rest,
                  !.scheduled = Append(s.scheduled, opt),
                  !.inflight = s.inflight \cup {Len(s.scheduled) + 1}]

\* Mutant of scheduleNext: a consumed slot dispatches nothing.
scheduleNextNever(s) == s

\* if (tasks.length) { workerPool.scheduleTask(..., tasks.shift())... }
scheduleNext(s) == IF Len(s.tasks) > 0 THEN scheduleShift(s) ELSE s

\* Mutant of invokeIterator: chunk.unload() is left out.
invokeIteratorNoUnload(s, r) ==
    LET n == blobs[r + 1]
        rows == [i \in 1..n |-> [chunk |-> r, row |-> i - 1, index |-> s.index + i - 1]]
        done == s.blobIndex >= Len(blobs) - 1
    IN  [s EXCEPT !.calls = s.calls \o rows,
                  !.events = s.events \o <<[op |-> "materialize", chunk |-> r]>>
                                     \o [i \in 1..n |-> [op |-> "row", chunk |-> r]],
                  !.index = s.index + n,
                  !.status = IF done THEN "resolved" ELSE s.status,
                  !.callsAtResolve = IF done /\ s.status = "pending"
                                     THEN Len(s.calls) + n ELSE s.callsAtResolve]

\* invokeIterator(result) for the result of chunk r
invokeIterator(s, r) ==
    LET n == blobs[r + 1]
        rows == [i \in 1..n |-> [chunk |-> r, row |-> i - 1, index |-> s.index + i - 1]]
        done == s.blobIndex >= Len(blobs) - 1
    IN  [s EXCEPT !.calls = s.calls \o rows,
                  !.events = s.events \o <<[op |-> "materialize", chunk |-> r]>>
                                     \o [i \in 1..n |-> [op |-> "row", chunk |-> r]]
                                     \o <<[op |-> "unload", chunk |-> r]>>,
                  !.index = s.index + n,
                  !.status = IF done THEN "resolved" ELSE s.status,
                  !.callsAtResolve = IF done /\ s.status = "pending"
                                     THEN Len(s.calls) + n ELSE s.callsAtResolve]

\* while (results.hasOwnProperty(++blobIndex)) { ... }
\* (An intermediate state is bound through a singleton set so that it is
\* evaluated once.)
RECURSIVE drain(_)
drain(s) ==
    LET b == s.blobIndex + 1
        t == [s EXCEPT !.blobIndex = b]
    IN  IF b \in s.results
        THEN CHOOSE d \in {drain(scheduleNext([u EXCEPT !.results = u.results \ {b}])) :
                            u \in {invokeIterator(t, b)}} : TRUE
        ELSE t

\* Mutant of handleResult: a result is replayed as it arrives.
handleResultOnArrival(s, r) ==
    IF r \in 0..(Len(blobs) - 1)
    THEN CHOOSE d \in {drain(scheduleNext(u)) : u \in {invokeIterator(s, r)}} : TRUE
    ELSE [s EXCEPT !.results = s.results \cup {r}]

\* Mutant of handleResult: a buffered result dispatches the next task too.
handleResultRefill(s, r) ==
    IF r = s.blobIndex
    THEN CHOOSE d \in {drain(scheduleNext(u)) : u \in {invokeIterator(s, r)}} : TRUE
    ELSE scheduleNext([s EXCEPT !.results = s.results \cup {r}])

\* handleResult(result) with result.index = r
handleResult(s, r) ==
    IF r = s.blobIndex
    THEN CHOOSE d \in {drain(scheduleNext(u)) : u \in {invokeIterator(s, r)}} : TRUE
    ELSE [s EXCEPT !.results = s.results \cup {r}]

\* for (let i = 0; i < workerPool.workers.length; ++i) { scheduleTask(tasks.shift()) }
RECURSIVE seed(_, _)
seed(s, n) == IF n = 0 THEN s ELSE seed(scheduleShift(s), n - 1)

SetItState(s) ==
    /\ tasks' = s.tasks
    /\ scheduled' = s.scheduled
    /\ inflight' = s.inflight
    /\ results' = s.results
    /\ blobIndex' = s.blobIndex
    /\ index' = s.index
    /\ calls' = s.calls
    /\ events' = s.events
    /\ status' = s.status
    /\ callsAtResolve' = s.callsAtResolve

BlobLists == UNION {[1..n -> 0..MaxRows] : n \in 0..MaxBlobs}

\* The iterator before any call, on the chunk list bl and a pool of w workers.
IterIdle(bl, w) ==
    /\ blobs = bl
    /\ workers = w
    /\ itPc = "idle"
    /\ tasks = <<>>
    /\ scheduled = <<>>
    /\ inflight = {}
    /\ failed = {}
    /\ results = {}
    /\ blobIndex = 0
    /\ index = 0
    /\ calls = <<>>
    /\ events = <<>>
    /\ status = "pending"
    /\ callsAtResolve = -1

NoCall == [from |-> -1, ret |-> 0, result |-> <<>>, warnings |-> 0, quotedBreaks |-> <<>>]

RowIdle ==
    /\ view = <<>>
    /\ rowOffset = 0
    /\ rowCall = NoCall
    /\ rowCalls = 0

SliceIdle ==
    /\ file = <<>>
    /\ start = 0
    /\ chunkSize = 1
    /\ maxRowSize = 1
    /\ slPc = "off"
    /\ offsets = <<>>
    /\ slPending = {}
    /\ slFailed = {}
    /\ sliceBlobs = <<>>

AnalyzeIdle ==
    /\ anBlobs = <<>>
    /\ header = <<>>
    /\ aggregated = [rowCount |-> 0, malformedRows |-> 0]
    /\ anPc = "off"
    /\ anPending = {}
    /\ anFailed = {}
    /\ anResults = <<>>
    /\ chunks = <<>>

NoHeader ==
    [columns |-> <<>>, rowCount |-> 0, rowLength |-> 0, dataLength |-> 0, dataOffset |-> 0]

BinaryIdle ==
    /\ bnRows = <<>>
    /\ bnBlobs = <<>>
    /\ bnPc = "off"
    /\ bnPending = {}
    /\ bnArrival = <<>>
    /\ bnFailed = {}
    /\ binaryHeader = NoHeader
    /\ bnChunks = <<>>

MergeIdle ==
    /\ supportsSharedMemory = TRUE
    /\ mgPc = "off"
    /\ mgCalls = 0
    /\ mgBuffer = [length |-> 0, shared |-> FALSE, allocated |-> FALSE]
    /\ mgTasks = <<>>
    /\ mgPending = {}
    /\ mgFailed = {}
    /\ written = <<>>

InitIter ==
    /\ \E bl \in BlobLists, w \in 1..MaxWorkers : IterIdle(bl, w)
    /\ RowIdle
    /\ SliceIdle
    /\ AnalyzeIdle
    /\ BinaryIdle
    /\ MergeIdle

\* The call: the task list is built and the executor seeds one task per worker.
IterateBlobs ==
    /\ itPc = "idle"
    /\ itPc' = "running"
    /\ \E s \in {seed([ItState EXCEPT !.tasks = [i \in 1..Len(blobs) |-> i - 1]], workers)} :
          SetItState(s)
    /\ UNCHANGED <<blobs, workers, failed>>
    /\ UNCHANGED nonItVars

\* The promise of scheduled[p] fulfils: handleResult runs to completion.
TaskDone(p) ==
    /\ itPc = "running"
    /\ p \in inflight
    /\ \E s \in {handleResult([ItState EXCEPT !.inflight = inflight \ {p}], scheduled[p])} :
          SetItState(s)
    /\ UNCHANGED <<blobs, workers, itPc, failed>>
    /\ UNCHANGED nonItVars

\* The promise of scheduled[p] rejects: .then(handleResult) has no rejection
\* handler and the executor only ever calls resolve.
TaskFail(p) ==
    /\ itPc = "running"
    /\ p \in inflight
    /\ inflight' = inflight \ {p}
    /\ failed' = failed \cup {p}
    /\ UNCHANGED <<blobs, workers, itPc, tasks, scheduled, results, blobIndex,
                   index, calls, events, status, callsAtResolve>>
    /\ UNCHANGED nonItVars

MaxTasks == MaxBlobs + MaxWorkers

SomeTaskDone == \E p \in 1..MaxTasks : TaskDone(p)
SomeTaskFail == \E p \in 1..MaxTasks : TaskFail(p)

Next == IterateBlobs \/ SomeTaskDone \/ SomeTaskFail

Spec == InitIter /\ [][Next]_vars

NextIterOK == IterateBlobs \/ SomeTaskDone

SpecIterOK ==
    /\ InitIter
    /\ [][NextIterOK]_vars
    /\ WF_vars(IterateBlobs)
    /\ \A p \in 1..MaxTasks : WF_vars(TaskDone(p))

(***************************************************************************)
(* readRow (default configuration).                                        *)
(***************************************************************************)
separator == 44
qualifier == 34
lineBreak == 10

\* Mutant of field: the byte at i, the delimiter, is part of the field.
fieldWithDelimiter(fieldOffset, i) == [offset |-> fieldOffset, length |-> i - fieldOffset + 1]

\* new Uint8Array(view.buffer, fieldOffset, i - fieldOffset)
field(fieldOffset, i) == [offset |-> fieldOffset, length |-> i - fieldOffset]

\* Mutant of qualifierStep: a qualifier inside a field never closes quoting.
qualifierStepNoClose(v, i, fieldOffset, isInQuotes) ==
    IF i - fieldOffset = 0 /\ ~isInQuotes
    THEN [isInQuotes |-> TRUE, warn |-> 0]
    ELSE [isInQuotes |-> isInQuotes, warn |-> 0]

\* The branch `char === qualifier` at byte i: the quoting state after it and
\* whether the rogue-qualifier warning is logged.
qualifierStep(v, i, fieldOffset, isInQuotes) ==
    IF i - fieldOffset = 0 /\ ~isInQuotes
    THEN [isInQuotes |-> TRUE, warn |-> 0]
    ELSE IF i - fieldOffset # 0 /\ i + 1 < Len(v) /\ v[i + 2] = qualifier
    THEN [isInQuotes |-> isInQuotes, warn |-> 0]
    ELSE IF i - fieldOffset # 0 /\ isInQuotes
    THEN [isInQuotes |-> FALSE, warn |-> 0]
    ELSE [isInQuotes |-> isInQuotes, warn |-> 1]

\* The for loop of readRow from byte i.  acc holds the fields pushed so far,
\* the number of warnings logged, and (for the claims only) the positions at
\* which the scan met a line-break byte while isInQuotes was true.
RECURSIVE readRowLoop(_, _, _, _, _)
readRowLoop(v, i, fieldOffset, isInQuotes, acc) ==
    IF i >= Len(v)
    THEN [ret |-> i,
          result |-> IF i > fieldOffset THEN Append(acc.result, field(fieldOffset, i))
                     ELSE acc.result,
          warnings |-> acc.warnings,
          quotedBreaks |-> acc.quotedBreaks]
    ELSE LET char == v[i + 1] IN
         IF char = qualifier
         THEN LET q == qualifierStep(v, i, fieldOffset, isInQuotes)
              IN  readRowLoop(v, i + 1, fieldOffset, q.isInQuotes,
                              [acc EXCEPT !.warnings = @ + q.warn])
         ELSE IF char = separator /\ ~isInQuotes
         THEN readRowLoop(v, i + 1, i + 1, isInQuotes,
                          [acc EXCEPT !.result = Append(@, field(fieldOffset, i))])
         ELSE IF char = lineBreak /\ ~isInQuotes
         THEN [ret |-> i + 1,
               result |-> Append(acc.result, field(fieldOffset, i)),
               \* if (isInQuotes) { warn; isInQuotes = false } inside this branch
               warnings |-> acc.warnings + (IF isInQuotes THEN 1 ELSE 0),
               quotedBreaks |-> acc.quotedBreaks]
         ELSE readRowLoop(v, i + 1, fieldOffset, isInQuotes,
                          IF char = lineBreak
                          THEN [acc EXCEPT !.quotedBreaks = Append(@, i)]
                          ELSE acc)

\* readRow(view, offset, result = [], defaultConfig): the returned offset and
\* the fields pushed into result.
readRow(v, offset) ==
    readRowLoop(v, offset, offset, FALSE,
                [result |-> <<>>, warnings |-> 0, quotedBreaks |-> <<>>])

Bytes == {lineBreak, qualifier, separator, 97, 98}

Views == UNION {[1..n -> Bytes] : n \in 0..MaxViewLen}

InitRow ==
    /\ view \in Views
    /\ rowOffset = 0
    /\ rowCall = NoCall
    /\ rowCalls = 0
    /\ \E bl \in {<<>>}, w \in {1} : IterIdle(bl, w)
    /\ SliceIdle
    /\ AnalyzeIdle
    /\ BinaryIdle
    /\ MergeIdle

\* One call of readRow at the offset the previous call returned, as the
\* callers make it while bytes remain.
ReadRow ==
    /\ rowOffset < Len(view)
    /\ \E r \in {readRow(view, rowOffset)} :
          /\ rowCall' = [from |-> rowOffset, ret |-> r.ret, result |-> r.result,
                         warnings |-> r.warnings, quotedBreaks |-> r.quotedBreaks]
          /\ rowOffset' = r.ret
    /\ rowCalls' = rowCalls + 1
    /\ UNCHANGED view
    /\ UNCHANGED nonRowVars

NextRow == ReadRow

SpecRow == InitRow /\ [][NextRow]_vars

(***************************************************************************)
(* sliceFile.                                                              *)
(***************************************************************************)
Min(a, b) == IF a < b THEN a ELSE b

\* readHeader: the offset just past the first row of the first
\* min(maxRowSize, file.size) bytes when firstRowHeader, else 0.
readHeaderOffset(f, mrs, firstRowHeader) ==
    IF firstRowHeader THEN readRow(SubSeq(f, 1, Min(mrs, Len(f))), 0).ret ELSE 0

\* while (offset < file.size) { offsets.push({start, end}); offset += chunkSize }
RECURSIVE tentativeOffsets(_, _, _, _)
tentativeOffsets(size, cs, offset, acc) ==
    IF offset < size
    THEN tentativeOffsets(size, cs, offset + cs,
                          Append(acc, [start |-> offset, end |-> Min(offset + cs, size)]))
    ELSE acc

\* The calculateOffsets task for a tentative end: the distance from it to
\* just past the first line-break byte at or after it, looking at no more
\* than mrs bytes; -1 when there is none.
calculateOffsets(f, end, mrs) ==
    LET hits == {p \in end..(Min(end + mrs, Len(f)) - 1) : f[p + 1] = lineBreak}
    IN  IF hits = {} THEN -1
        ELSE (CHOOSE p \in hits : \A q \in hits : p <= q) - end + 1

\* Mutant of shiftBoundary: only the end of the left chunk is moved.
shiftBoundaryEndOnly(offs, i, d) ==
    [offs EXCEPT ![i + 1].end = @ + d]

\* offsets[index].end += offset; offsets[index + 1].start += offset
shiftBoundary(offs, i, d) ==
    [offs EXCEPT ![i + 1].end = @ + d, ![i + 2].start = @ + d]

\* for (i = 0; i < results.length; ++i) { ... } over the results of
\* Promise.all, results[i] being the result of the task of index i.
shiftAll(f, mrs, offs) ==
    LET RECURSIVE go(_, _)
        go(i, acc) ==
            IF i >= Len(offs) - 1 THEN acc
            ELSE go(i + 1, shiftBoundary(acc, i, calculateOffsets(f, offs[i + 1].end, mrs)))
    IN  go(0, offs)

\* The sources: line-break, qualifier and one ordinary byte (a separator is
\* an ordinary byte to everything that looks for the end of a row).
Files == UNION {[1..n -> {lineBreak, qualifier, 97}] : n \in 0..MaxFileLen}

InitSlice ==
    /\ file \in Files
    /\ chunkSize \in 1..MaxChunkSize
    /\ maxRowSize \in 1..MaxRowSize
    /\ \E firstRowHeader \in BOOLEAN : start = readHeaderOffset(file, maxRowSize, firstRowHeader)
    /\ slPc = "idle"
    /\ offsets = <<>>
    /\ slPending = {}
    /\ slFailed = {}
    /\ sliceBlobs = <<>>
    /\ \E bl \in {<<>>}, w \in {1} : IterIdle(bl, w)
    /\ RowIdle
    /\ AnalyzeIdle
    /\ BinaryIdle
    /\ MergeIdle

\* The call, up to `await Promise.all(promises)`: one task per boundary but
\* the last.
SliceFile ==
    /\ slPc = "idle"
    /\ slPc' = "awaiting"
    /\ offsets' = tentativeOffsets(Len(file), chunkSize, start, <<>>)
    /\ slPending' = 0..(Len(offsets') - 2)
    /\ UNCHANGED <<file, start, chunkSize, maxRowSize, slFailed, sliceBlobs>>
    /\ UNCHANGED nonSlVars

\* The task of boundary i fulfils; it found a line-break.  (Once Promise.all
\* rejected, what the remaining tasks do is not observed by sliceFile.)
ScanDone(i) ==
    /\ slPc = "awaiting"
    /\ i \in slPending
    /\ calculateOffsets(file, offsets[i + 1].end, maxRowSize) >= 0
    /\ slPending' = slPending \ {i}
    /\ UNCHANGED <<file, start, chunkSize, maxRowSize, slPc, offsets, slFailed, sliceBlobs>>
    /\ UNCHANGED nonSlVars

\* The task of boundary i rejects (no line-break within maxRowSize, or an
\* error in the worker): Promise.all rejects and so does sliceFile.
ScanFail(i) ==
    /\ slPc = "awaiting"
    /\ i \in slPending
    /\ slPending' = slPending \ {i}
    /\ slFailed' = slFailed \cup {i}
    /\ slPc' = "rejected"
    /\ UNCHANGED <<file, start, chunkSize, maxRowSize, offsets, sliceBlobs>>
    /\ UNCHANGED nonSlVars

\* Promise.all fulfilled: the boundaries are shifted and the blobs sliced.
SliceResume ==
    /\ slPc = "awaiting"
    /\ slPending = {}
    /\ slPc' = "done"
    /\ offsets' = shiftAll(file, maxRowSize, offsets)
    /\ sliceBlobs' = offsets'
    /\ UNCHANGED <<file, start, chunkSize, maxRowSize, slPending, slFailed>>
    /\ UNCHANGED nonSlVars

NextSlice ==
    \/ SliceFile
    \/ \E i \in 0..MaxFileLen : ScanDone(i)
    \/ \E i \in 0..MaxFileLen : ScanFail(i)
    \/ SliceResume

SpecSlice == InitSlice /\ [][NextSlice]_vars

(***************************************************************************)
(* analyzeBlobs.                                                           *)
(***************************************************************************)
Max(a, b) == IF a > b THEN a ELSE b

\* Number.MAX_SAFE_INTEGER and Number.MIN_SAFE_INTEGER, by the largest and
\* smallest integers of the model; every length of the model lies between.
MAX_SAFE_INTEGER == 2147483647
MIN_SAFE_INTEGER == -2147483647

\* The header readHeader builds for a first row of two columns.
ColumnNames == <<"a", "b">>

newHeader ==
    [c \in 1..Len(ColumnNames) |->
        [name |-> ColumnNames[c], minLength |-> MAX_SAFE_INTEGER,
         maxLength |-> MIN_SAFE_INTEGER, emptyCount |-> 0, stringCount |-> 0,
         intCount |-> 0, floatCount |-> 0]]

\* The rows a chunk may hold: the length and the type of the field of each
\* column, and whether the tokenizer counted the row as malformed.
RowKinds ==
    {[cells |-> <<[length |-> 1, type |-> "int"], [length |-> 0, type |-> "empty"]>>,
      malformed |-> FALSE],
     [cells |-> <<[length |-> 3, type |-> "float"], [length |-> 2, type |-> "string"]>>,
      malformed |-> FALSE],
     [cells |-> <<[length |-> 2, type |-> "string"], [length |-> 1, type |-> "int"]>>,
      malformed |-> TRUE]}

SetMin(S) == CHOOSE x \in S : \A y \in S : x <= y
SetMax(S) == CHOOSE x \in S : \A y \in S : x >= y

\* The parseBlob task in ANALYZE mode on a chunk of the rows rs: stats, and
\* six numbers per column (min length, max length, int, float, string and
\* empty counts) in one flat array.
parseBlobAnalyze(rs) ==
    LET count(c, t) == Cardinality({r \in 1..Len(rs) : rs[r].cells[c].type = t})
        lens(c) == {rs[r].cells[c].length : r \in 1..Len(rs)}
        meta(c) == <<SetMin(lens(c)), SetMax(lens(c)), count(c, "int"),
                     count(c, "float"), count(c, "string"), count(c, "empty")>>
    IN  [stats |-> [rowCount |-> Len(rs),
                    malformedRows |-> Cardinality({r \in 1..Len(rs) : rs[r].malformed})],
         columns |-> [k \in 1..(6 * Len(ColumnNames)) |-> meta(((k - 1) \div 6) + 1)[((k - 1) % 6) + 1]]]

\* Mutant of foldColumn: the maximum length is overwritten, not folded.
foldColumnLastMax(h, metaView, mi) ==
    [h EXCEPT !.minLength = Min(h.minLength, metaView[mi + 1]),
              !.maxLength = metaView[mi + 2],
              !.intCount = @ + metaView[mi + 3],
              !.floatCount = @ + metaView[mi + 4],
              !.stringCount = @ + metaView[mi + 5],
              !.emptyCount = @ + metaView[mi + 6]]

\* The body of the loop over the columns: header[ii] folded with the six
\* numbers of metaView that start at index mi.
foldColumn(h, metaView, mi) ==
    [h EXCEPT !.minLength = Min(h.minLength, metaView[mi + 1]),
              !.maxLength = Max(h.maxLength, metaView[mi + 2]),
              !.intCount = @ + metaView[mi + 3],
              !.floatCount = @ + metaView[mi + 4],
              !.stringCount = @ + metaView[mi + 5],
              !.emptyCount = @ + metaView[mi + 6]]

\* The body of the loop over results, for results[i] = the result of the
\* chunk of index k; acc holds chunks, aggregated and header.
foldResult(acc, k, res) ==
    [chunks |-> [acc.chunks EXCEPT ![k + 1] = res.stats.rowCount],
     aggregated |-> [rowCount |-> acc.aggregated.rowCount + res.stats.rowCount,
                     malformedRows |-> acc.aggregated.malformedRows + res.stats.malformedRows],
     header |-> [ii \in 1..Len(acc.header) |->
                    foldColumn(acc.header[ii], res.columns, 6 * (ii - 1))]]

\* for (let i = 0; i < results.length; ++i) { ... }, order being the chunk
\* indices of results[0], results[1], ...
RECURSIVE foldResults(_, _, _)
foldResults(acc, rs, order) ==
    IF order = <<>> THEN acc
    ELSE foldResults(foldResult(acc, Head(order), rs[Head(order) + 1]), rs, Tail(order))

\* The orders in which a list of n results can be walked.
Orders(n) ==
    {o \in [1..n -> 0..(n - 1)] : \A i, j \in 1..n : i # j => o[i] # o[j]}

ChunkRows == UNION {[1..n -> RowKinds] : n \in 1..MaxChunkRows}

InitAnalyze ==
    /\ \E n \in 0..MaxAnChunks : \E rows \in [1..n -> ChunkRows] :
          anBlobs = [k \in 1..n |-> parseBlobAnalyze(rows[k])]
    /\ header = newHeader
    /\ aggregated = [rowCount |-> 0, malformedRows |-> 0]
    /\ anPc = "idle"
    /\ anPending = {}
    /\ anFailed = {}
    /\ anResults = <<>>
    /\ chunks = <<>>
    /\ \E bl \in {<<>>}, w \in {1} : IterIdle(bl, w)
    /\ RowIdle
    /\ SliceIdle
    /\ BinaryIdle
    /\ MergeIdle

\* The call, up to `await Promise.all(promises)`: one task per blob.
AnalyzeBlobs ==
    /\ anPc = "idle"
    /\ anPc' = "awaiting"
    /\ anPending' = 0..(Len(anBlobs) - 1)
    /\ UNCHANGED <<anBlobs, header, aggregated, anFailed, anResults, chunks>>
    /\ UNCHANGED nonAnVars

\* The parseBlob task of chunk i fulfils.
AnalyzeDone(i) ==
    /\ anPc = "awaiting"
    /\ i \in anPending
    /\ anPending' = anPending \ {i}
    /\ UNCHANGED <<anBlobs, header, aggregated, anPc, anFailed, anResults, chunks>>
    /\ UNCHANGED nonAnVars

\* Mutant of AnalyzeFail: the failure is recorded and the others are still
\* awaited (Promise.allSettled).
AnalyzeFailSettled(i) ==
    /\ anPc = "awaiting"
    /\ i \in anPending
    /\ anPending' = anPending \ {i}
    /\ anFailed' = anFailed \cup {i}
    /\ UNCHANGED <<anBlobs, header, aggregated, anPc, anResults, chunks>>
    /\ UNCHANGED nonAnVars

\* The parseBlob task of chunk i rejects: Promise.all rejects and so does
\* analyzeBlobs.
AnalyzeFail(i) ==
    /\ anPc = "awaiting"
    /\ i \in anPending
    /\ anPending' = anPending \ {i}
    /\ anFailed' = anFailed \cup {i}
    /\ anPc' = "rejected"
    /\ UNCHANGED <<anBlobs, header, aggregated, anResults, chunks>>
    /\ UNCHANGED nonAnVars

\* Promise.all fulfilled: the results are folded.  Promise.all lists the
\* results in task order; the loop addresses a chunk by results[i].index,
\* never by i, so the list is let arrive in any order.
AnalyzeResume ==
    /\ anPc = "awaiting"
    /\ anPending = {}
    /\ anPc' = "done"
    /\ \E order \in Orders(Len(anBlobs)) :
          /\ anResults' = order
          /\ \E acc \in {foldResults([chunks |-> [k \in 1..Len(anBlobs) |-> 0],
                                      aggregated |-> [rowCount |-> 0, malformedRows |-> 0],
                                      header |-> header], anBlobs, order)} :
                /\ chunks' = acc.chunks
                /\ aggregated' = acc.aggregated
                /\ header' = acc.header
    /\ UNCHANGED <<anBlobs, anPending, anFailed>>
    /\ UNCHANGED nonAnVars

NextAnalyze ==
    \/ AnalyzeBlobs
    \/ \E i \in 0..MaxAnChunks : AnalyzeDone(i)
    \/ \E i \in 0..MaxAnChunks : AnalyzeFail(i)
    \/ AnalyzeResume

SpecAnalyze == InitAnalyze /\ [][NextAnalyze]_vars

(***************************************************************************)
(* binaryChunksFromBlobs.                                                  *)
(***************************************************************************)
\* The widths a row may have, column by column.
RowWidths == {<<1, 2>>, <<2, 1>>}

\* What a task may report beside the widths: a packing order (not always a
\* permutation of the column indices) and the type of each column.
Layouts ==
    {[order |-> <<0, 1>>, types |-> <<"int", "string">>],
     [order |-> <<1, 0>>, types |-> <<"float", "string">>],
     [order |-> <<0, 0>>, types |-> <<"int", "int">>]}

\* The parseBlob task in BINARY mode on a chunk of the rows rs: the header
\* of its result.
parseBlobBinary(rs, layout) ==
    [rowCount |-> Len(rs),
     lengths |-> [c \in 1..Len(ColumnNames) |-> SetMax({0} \cup {rs[r][c] : r \in 1..Len(rs)})],
     types |-> layout.types,
     order |-> layout.order]

\* binaryHeader before the results are folded, types taken from results[0].
newBinaryHeader(types) ==
    [columns |-> [c \in 1..Len(ColumnNames) |->
                    [name |-> ColumnNames[c], length |-> 0, offset |-> 0, type |-> types[c]]],
     rowCount |-> 0, rowLength |-> 0, dataLength |-> 0, dataOffset |-> 0]

\* Mutant of foldWidths: a column's width is that of the chunk folded last.
foldWidthsLast(bh, h) ==
    [bh EXCEPT !.rowCount = @ + h.rowCount,
               !.columns = [c \in 1..Len(bh.columns) |->
                              [bh.columns[c] EXCEPT !.length = h.lengths[c]]]]

\* The body of the loop over results: rowCount summed, column widths maxed.
foldWidths(bh, h) ==
    [bh EXCEPT !.rowCount = @ + h.rowCount,
               !.columns = [c \in 1..Len(bh.columns) |->
                              [bh.columns[c] EXCEPT !.length = Max(@, h.lengths[c])]]]

RECURSIVE foldAllWidths(_, _, _)
foldAllWidths(bh, rs, i) ==
    IF i > Len(rs) THEN bh ELSE foldAllWidths(foldWidths(bh, rs[i].header), rs, i + 1)

\* The layout pass: the columns are given their offsets in the order
\* results[0].header.order; returns the header with rowLength, dataLength
\* and dataOffset set.
RECURSIVE layoutFrom(_, _, _, _)
layoutFrom(bh, order, i, offset) ==
    IF i > Len(bh.columns)
    THEN [bh EXCEPT !.rowLength = offset, !.dataLength = offset * bh.rowCount,
                    !.dataOffset = 0]
    ELSE layoutFrom([bh EXCEPT !.columns[order[i] + 1].offset = offset],
                    order, i + 1, offset + bh.columns[order[i] + 1].length)

\* The cut points of a chunking of R rows into n chunks.
Cuts(R, n) ==
    {c \in [0..n -> 0..R] : c[0] = 0 /\ c[n] = R /\ \A k \in 1..n : c[k - 1] <= c[k]}

InitBinary ==
    /\ bnRows \in UNION {[1..R -> RowWidths] : R \in 0..MaxTotalRows}
    /\ \E n \in 0..MaxBnChunks :
          \E c \in IF n = 0 THEN {<<>>} ELSE Cuts(Len(bnRows), n) :
             \E lay \in [1..n -> Layouts] :
                bnBlobs = [k \in 1..n |->
                             [index |-> k - 1,
                              header |-> parseBlobBinary(SubSeq(bnRows, c[k - 1] + 1, c[k]), lay[k])]]
    /\ bnPc = "idle"
    /\ bnPending = {}
    /\ bnArrival = <<>>
    /\ bnFailed = {}
    /\ binaryHeader = NoHeader
    /\ bnChunks = <<>>
    /\ \E bl \in {<<>>}, w \in {1} : IterIdle(bl, w)
    /\ RowIdle
    /\ SliceIdle
    /\ AnalyzeIdle
    /\ MergeIdle

\* The call, up to `await Promise.all(promises)`: one task per blob.
BinaryChunksFromBlobs ==
    /\ bnPc = "idle"
    /\ bnPc' = "awaiting"
    /\ bnPending' = 0..(Len(bnBlobs) - 1)
    /\ UNCHANGED <<bnRows, bnBlobs, bnArrival, bnFailed, binaryHeader, bnChunks>>
    /\ UNCHANGED nonBnVars

\* The parseBlob task of chunk i fulfils.
BinaryDone(i) ==
    /\ bnPc = "awaiting"
    /\ i \in bnPending
    /\ bnPending' = bnPending \ {i}
    /\ bnArrival' = Append(bnArrival, i)
    /\ UNCHANGED <<bnRows, bnBlobs, bnPc, bnFailed, binaryHeader, bnChunks>>
    /\ UNCHANGED nonBnVars

\* The parseBlob task of chunk i rejects: Promise.all rejects.
BinaryFail(i) ==
    /\ bnPc = "awaiting"
    /\ i \in bnPending
    /\ bnPending' = bnPending \ {i}
    /\ bnFailed' = bnFailed \cup {i}
    /\ bnPc' = "rejected"
    /\ UNCHANGED <<bnRows, bnBlobs, bnArrival, binaryHeader, bnChunks>>
    /\ UNCHANGED nonBnVars

\* Mutant of promiseAllResults: the results are listed as they arrived.
resultsAsArrived(rs, arrival) == [i \in 1..Len(arrival) |-> rs[arrival[i] + 1]]

\* const results = await Promise.all(promises): the results of the tasks in
\* the order of promises, whatever the order in which they fulfilled.
promiseAllResults(rs, arrival) == rs

\* Promise.all fulfilled: the header is built from results.  With no blob,
\* results[0] is undefined and reading results[0].header throws: the call
\* rejects.
BinaryResume ==
    /\ bnPc = "awaiting"
    /\ bnPending = {}
    /\ IF Len(bnBlobs) = 0
       THEN /\ bnPc' = "rejected"
            /\ UNCHANGED <<binaryHeader, bnChunks>>
       ELSE /\ bnPc' = "done"
            /\ \E res \in {promiseAllResults(bnBlobs, bnArrival)} :
                  /\ \E bh \in {foldAllWidths(newBinaryHeader(res[1].header.types), res, 1)} :
                        binaryHeader' = layoutFrom(bh, res[1].header.order, 1, 0)
                  \* orderedResults[results[i].index] = results[i]
                  /\ bnChunks' = [k \in 1..Len(res) |->
                                    LET r == CHOOSE r \in Range(res) : r.index = k - 1
                                    IN  [index |-> r.index, rowCount |-> r.header.rowCount]]
    /\ UNCHANGED <<bnRows, bnBlobs, bnPending, bnArrival, bnFailed>>
    /\ UNCHANGED nonBnVars

NextBinary ==
    \/ BinaryChunksFromBlobs
    \/ \E i \in 0..MaxBnChunks : BinaryDone(i)
    \/ \E i \in 0..MaxBnChunks : BinaryFail(i)
    \/ BinaryResume

SpecBinary == InitBinary /\ [][NextBinary]_vars

(***************************************************************************)
(* mergeChunksIntoBuffer.                                                  *)
(***************************************************************************)
\* Mutant of nextDataOffset: the chunk's row count is left out.
nextDataOffsetOneRow(dataOffset, chunk, bh) == dataOffset + bh.rowLength

\* dataOffset += chunks[i].header.rowCount * binaryHeader.rowLength
nextDataOffset(dataOffset, chunk, bh) == dataOffset + chunk.rowCount * bh.rowLength

\* The loop of the shared-memory path: one mergeIntoBuffer task per chunk,
\* each given the running dataOffset.
RECURSIVE mergeTasks(_, _, _, _, _)
mergeTasks(chs, bh, dataOffset, i, acc) ==
    IF i > Len(chs) THEN acc
    ELSE mergeTasks(chs, bh, nextDataOffset(dataOffset, chs[i], bh), i + 1,
                    Append(acc, [task |-> "mergeIntoBuffer", dataOffset |-> dataOffset,
                                 rowCount |-> chs[i].rowCount]))

\* The bytes a task writes: rowCount rows of rowLength bytes from its
\* dataOffset on (mergeParsedResults writes the rows of every chunk).
taskRegion(t, bh) == t.dataOffset..(t.dataOffset + t.rowCount * bh.rowLength - 1)

\* config.output of a call: none, or a caller's buffer and offset.
Outputs(bh, ssm) ==
    {[buffer |-> FALSE, length |-> 0, shared |-> FALSE, offset |-> 0]}
    \cup {[buffer |-> TRUE, length |-> off + bh.dataLength, shared |-> sh, offset |-> off] :
            off \in {0, 2}, sh \in {b \in BOOLEAN : b => ssm}}

\* The state binaryChunksFromBlobs leaves: its header and ordered chunks.
InitMerge ==
    /\ \E rows \in UNION {[1..R -> RowWidths] : R \in 0..MaxTotalRows} :
          \E n \in 1..MaxBnChunks : \E c \in Cuts(Len(rows), n) : \E lay \in Layouts :
             LET rs == [k \in 1..n |->
                          [index |-> k - 1,
                           header |-> parseBlobBinary(SubSeq(rows, c[k - 1] + 1, c[k]), lay)]]
             IN  /\ binaryHeader = layoutFrom(foldAllWidths(newBinaryHeader(lay.types), rs, 1),
                                              lay.order, 1, 0)
                 /\ bnChunks = [k \in 1..n |-> [index |-> k - 1, rowCount |-> rs[k].header.rowCount]]
    /\ bnRows = <<>>
    /\ bnBlobs = <<>>
    /\ bnPc = "done"
    /\ bnPending = {}
    /\ bnArrival = <<>>
    /\ bnFailed = {}
    /\ supportsSharedMemory \in BOOLEAN
    /\ mgPc = "idle"
    /\ mgCalls = 0
    /\ mgBuffer = [length |-> 0, shared |-> FALSE, allocated |-> FALSE]
    /\ mgTasks = <<>>
    /\ mgPending = {}
    /\ mgFailed = {}
    /\ written = <<>>
    /\ \E bl \in {<<>>}, w \in {1} : IterIdle(bl, w)
    /\ RowIdle
    /\ SliceIdle
    /\ AnalyzeIdle

\* The call, up to the await, with config.output = out.  (On the
\* shared-memory path the transferable list is handed to promises.push, not
\* to scheduleTask; Promise.all passes such a value through.)
MergeChunksIntoBuffer(out) ==
    /\ mgPc \in {"idle", "done", "rejected"}
    /\ mgCalls < MaxMergeCalls
    /\ mgCalls' = mgCalls + 1
    /\ mgPc' = "awaiting"
    /\ mgBuffer' = IF out.buffer
                   THEN [length |-> out.length, shared |-> out.shared, allocated |-> FALSE]
                   ELSE [length |-> binaryHeader.dataLength, shared |-> supportsSharedMemory,
                         allocated |-> TRUE]
    /\ binaryHeader' = IF out.buffer /\ out.offset # 0
                       THEN [binaryHeader EXCEPT !.dataOffset = out.offset]
                       ELSE binaryHeader
    /\ mgTasks' = IF supportsSharedMemory /\ mgBuffer'.shared
                  THEN mergeTasks(bnChunks, binaryHeader', binaryHeader'.dataOffset, 1, <<>>)
                  ELSE <<[task |-> "mergeParsedResults", dataOffset |-> binaryHeader'.dataOffset,
                          rowCount |-> binaryHeader'.rowCount]>>
    /\ mgPending' = 1..Len(mgTasks')
    /\ mgFailed' = {}
    /\ written' = [b \in 1..mgBuffer'.length |-> 0]
    /\ UNCHANGED <<supportsSharedMemory, bnRows, bnBlobs, bnPc, bnPending, bnArrival,
                   bnFailed, bnChunks>>
    /\ UNCHANGED nonMgVars

\* The task mgTasks[p] fulfils: it wrote its bytes (a store past the end of
\* the buffer leaves no trace).
MergeDone(p) ==
    /\ mgPc = "awaiting"
    /\ p \in mgPending
    /\ mgPending' = mgPending \ {p}
    /\ written' = [b \in 1..mgBuffer.length |->
                     IF (b - 1) \in taskRegion(mgTasks[p], binaryHeader)
                     THEN written[b] + 1 ELSE written[b]]
    /\ UNCHANGED <<supportsSharedMemory, mgPc, mgCalls, mgBuffer, mgTasks, mgFailed>>
    /\ UNCHANGED <<bnVars, nonMgVars>>

\* The task mgTasks[p] rejects: the await rejects and so does the call.
MergeFail(p) ==
    /\ mgPc = "awaiting"
    /\ p \in mgPending
    /\ mgPending' = mgPending \ {p}
    /\ mgFailed' = mgFailed \cup {p}
    /\ mgPc' = "rejected"
    /\ UNCHANGED <<supportsSharedMemory, mgCalls, mgBuffer, mgTasks, written>>
    /\ UNCHANGED <<bnVars, nonMgVars>>

\* The await is over: {header, data} is returned.
MergeResume ==
    /\ mgPc = "awaiting"
    /\ mgPending = {}
    /\ mgPc' = "done"
    /\ UNCHANGED <<supportsSharedMemory, mgCalls, mgBuffer, mgTasks, mgPending,
                   mgFailed, written>>
    /\ UNCHANGED <<bnVars, nonMgVars>>

NextMerge ==
    \/ \E out \in Outputs(binaryHeader, supportsSharedMemory) : MergeChunksIntoBuffer(out)
    \/ \E p \in 1..MaxBnChunks : MergeDone(p)
    \/ \E p \in 1..MaxBnChunks : MergeFail(p)
    \/ MergeResume

SpecMerge == InitMerge /\ [][NextMerge]_vars

(***************************************************************************)
(* The four operations that dispatch all their tasks and await them all:   *)
(* any one of them is called.                                              *)
(***************************************************************************)
InitFanOut == InitSlice \/ InitAnalyze \/ InitBinary \/ InitMerge

NextFanOut == NextSlice \/ NextAnalyze \/ NextBinary \/ NextMerge

SpecFanOut == InitFanOut /\ [][NextFanOut]_vars

(***************************************************************************)
(* Claims about readRow.                                                   *)
(***************************************************************************)
\* The bytes of an emitted field.
FieldBytes(f) == SubSeq(view, f.offset + 1, f.offset + f.length)

\* C9: when the scan meets a line-break byte while a quoted field is open,
\* the row ends there: the fields are emitted and the returned offset is just
\* past that byte, so the next row is not swallowed.
C9_UnterminatedQuoteEndsRow ==
    rowCall.from >= 0 /\ rowCall.quotedBreaks # <<>>
        => /\ rowCall.ret = rowCall.quotedBreaks[1] + 1
           /\ rowCall.result # <<>>

\* The field "a""b" (qualifier, a, two quote bytes, b, qualifier) starts at
\* byte f of the row read by the last call: it opens the row or follows
\* only unquoted fields, and a separator, a line-break or the end of the
\* view follows it.
QuotedFieldAt(f) ==
    /\ rowCall.from >= 0
    /\ f >= rowCall.from
    /\ f + 6 <= Len(view)
    /\ SubSeq(view, f + 1, f + 6) = <<qualifier, 97, qualifier, qualifier, 98, qualifier>>
    /\ f + 6 = Len(view) \/ view[f + 7] \in {separator, lineBreak}
    /\ \A j \in rowCall.from..(f - 1) : view[j + 1] \in {97, 98, separator}
    /\ f = rowCall.from \/ view[f] = separator

\* The fields the last call emitted that hold a byte of [f, f + 6).
FieldsOver(f) ==
    {k \in 1..Len(rowCall.result) :
        /\ rowCall.result[k].offset < f + 6
        /\ rowCall.result[k].offset + rowCall.result[k].length > f}

\* C10 as claimed: the field "a""b" is emitted as one field whose bytes are
\* a, one quote byte, b.
C10_EscapedQuoteValue ==
    \A f \in 0..Len(view) :
        QuotedFieldAt(f)
            => /\ Cardinality(FieldsOver(f)) = 1
               /\ \A k \in FieldsOver(f) : FieldBytes(rowCall.result[k]) = <<97, qualifier, 98>>

\* C10 amended: the field "a""b" is emitted as one field, the byte range of
\* the raw text: both qualifiers and both quote bytes are part of it.
C10_EscapedQuoteRaw ==
    \A f \in 0..Len(view) :
        QuotedFieldAt(f)
            => /\ Cardinality(FieldsOver(f)) = 1
               /\ \A k \in FieldsOver(f) : rowCall.result[k] = [offset |-> f, length |-> 6]

\* The field, after an empty first field, followed by nothing.
C10_Witness ==
    /\ QuotedFieldAt(rowCall.from + 1)
    /\ Len(rowCall.result) = 2

\* C18: a call of readRow at an offset below the length of the view returns
\* r with offset < r <= length; the fields it emits are byte ranges within
\* [offset, r), in ascending order and not overlapping; the calls made
\* from each other's return value number at most the bytes they consumed,
\* so they reach the end of the view after at most length calls.
C18_ProgressAndFieldRanges ==
    rowCall.from >= 0
        => /\ rowCall.from < rowCall.ret
           /\ rowCall.ret <= Len(view)
           /\ rowOffset = rowCall.ret
           /\ rowCalls <= rowOffset
           /\ \A k \in 1..Len(rowCall.result) :
                 /\ rowCall.result[k].length >= 0
                 /\ rowCall.result[k].offset >= rowCall.from
                 /\ rowCall.result[k].offset + rowCall.result[k].length <= rowCall.ret
           /\ \A k \in 1..(Len(rowCall.result) - 1) :
                 rowCall.result[k].offset + rowCall.result[k].length
                    <= rowCall.result[k + 1].offset

\* The second call, from the offset the first returned: it emits three
\* fields, one of them opening with a qualifier, and does not reach the end
\* of the view.
C18_Witness ==
    /\ rowCall.from > 0
    /\ rowCalls = 2
    /\ rowCall.ret < Len(view)
    /\ Len(rowCall.result) = 3
    /\ \E k \in 1..3 : rowCall.result[k].length >= 2
                         /\ view[rowCall.result[k].offset + 1] = qualifier

\* The row read by the last call opens with a quoted field that holds an
\* escaped quote (two quote bytes) at e, e + 1 and whose closing quote is at
\* c: ordinary bytes before the pair; ordinary, separator and line-break
\* bytes between the pair and the closing quote; a separator, a line-break
\* or the end of the view after it.
EscapedQuoteInside(e, c) ==
    /\ rowCall.from >= 0
    /\ rowCall.from < e
    /\ e + 2 <= c
    /\ c < Len(view)
    /\ view[rowCall.from + 1] = qualifier
    /\ \A j \in (rowCall.from + 1)..(e - 1) : view[j + 1] \in {97, 98}
    /\ view[e + 1] = qualifier
    /\ view[e + 2] = qualifier
    /\ \A j \in (e + 2)..(c - 1) : view[j + 1] \in {97, 98, separator, lineBreak}
    /\ view[c + 1] = qualifier
    /\ c + 1 = Len(view) \/ view[c + 2] \in {separator, lineBreak}

\* C13: an escaped quote leaves the quoting state unchanged: the separator
\* and line-break bytes between the escaped pair and the closing quote end
\* neither the field nor the row, so the first field emitted reaches past
\* the closing quote and so does the returned offset.
C13_EscapedQuoteKeepsQuoting ==
    \A e, c \in 0..Len(view) :
        EscapedQuoteInside(e, c)
            => /\ rowCall.ret > c
               /\ Len(rowCall.result) >= 1
               /\ rowCall.result[1].offset = rowCall.from
               /\ rowCall.result[1].offset + rowCall.result[1].length > c

(***************************************************************************)
(* Claims about sliceFile and analyzeBlobs.                                *)
(***************************************************************************)
\* The offsets at which the tokenizer starts a row of v when it reads v row
\* after row from offset from, and the end of v.
RECURSIVE RowStarts(_, _)
RowStarts(v, from) ==
    IF from >= Len(v) THEN {Len(v)}
    ELSE {from} \cup RowStarts(v, readRow(v, from).ret)

\* The number of rows a parseBlob task counts in the bytes v: one per call
\* of the tokenizer until the bytes are used up.
CountRows(v) == Cardinality(RowStarts(v, 0) \ {Len(v)})

\* The bytes of the range r of file.
BlobBytes(r) == SubSeq(file, r.start + 1, r.end)

\* C4: every boundary between two chunks is immediately preceded by a
\* line-break byte and is the start of a row as the tokenizer delimits rows,
\* so that no row's bytes span two chunks.
C4_BoundarySafety ==
    slPc = "done"
        => \A k \in 1..(Len(sliceBlobs) - 1) :
              \A b \in {sliceBlobs[k].end, sliceBlobs[k + 1].start} :
                  /\ b >= 1
                  /\ file[b] = lineBreak
                  /\ b \in RowStarts(file, start)

\* C17: the ranges sliceFile returns partition [start, file size): there is
\* none when start is at or past the file size; otherwise the first starts
\* at start, the last ends at the file size, each range's end is the next
\* range's start, and no range has its start past its end.
C17_Partition ==
    slPc = "done"
        => LET n == Len(sliceBlobs)
           IN  /\ n = 0 <=> start >= Len(file)
               /\ n > 0 => sliceBlobs[1].start = start /\ sliceBlobs[n].end = Len(file)
               /\ \A k \in 1..(n - 1) : sliceBlobs[k].end = sliceBlobs[k + 1].start
               /\ \A k \in 1..n : sliceBlobs[k].start <= sliceBlobs[k].end

\* maxRowSize is larger than chunkSize and a boundary was moved past the
\* next tentative boundary: a range between two others is empty.
C17_Witness ==
    /\ slPc = "done"
    /\ maxRowSize > chunkSize
    /\ Len(sliceBlobs) >= 3
    /\ \E k \in 2..(Len(sliceBlobs) - 1) :
          /\ sliceBlobs[k].start = sliceBlobs[k].end
          /\ sliceBlobs[k].start > start + (k - 1) * chunkSize + chunkSize

\* C7: whatever the order in which the tasks complete and the results are
\* folded, minLength and maxLength are the elementwise minimum and maximum
\* over the chunks and every counter is the elementwise sum.
RECURSIVE SumSeq(_)
SumSeq(q) == IF q = <<>> THEN 0 ELSE Head(q) + SumSeq(Tail(q))

\* The j-th number (1..6) the task of each chunk reports for column c.
Reported(c, j) == [k \in 1..Len(anBlobs) |-> anBlobs[k].columns[6 * (c - 1) + j]]

C7_FoldIsElementwise ==
    anPc = "done"
        => /\ \A c \in 1..Len(ColumnNames) :
                 /\ header[c].minLength = SetMin({MAX_SAFE_INTEGER} \cup Range(Reported(c, 1)))
                 /\ header[c].maxLength = SetMax({MIN_SAFE_INTEGER} \cup Range(Reported(c, 2)))
                 /\ header[c].intCount = SumSeq(Reported(c, 3))
                 /\ header[c].floatCount = SumSeq(Reported(c, 4))
                 /\ header[c].stringCount = SumSeq(Reported(c, 5))
                 /\ header[c].emptyCount = SumSeq(Reported(c, 6))
           /\ aggregated.rowCount =
                 SumSeq([k \in 1..Len(anBlobs) |-> anBlobs[k].stats.rowCount])
           /\ aggregated.malformedRows =
                 SumSeq([k \in 1..Len(anBlobs) |-> anBlobs[k].stats.malformedRows])

\* Three different chunks were folded, the last one first.
C7_Witness ==
    /\ anPc = "done"
    /\ Len(anResults) = 3
    /\ anResults[1] = 2
    /\ Cardinality(Range(anBlobs)) = 3

\* C8: the row count the profiler aggregates over the chunks sliceFile
\* produced equals the row count of the same bytes taken as one chunk.
C8_RowCountPreserved ==
    slPc = "done"
        => LET n == Len(sliceBlobs)
               rs == [k \in 1..n |->
                        [stats |-> [rowCount |-> CountRows(BlobBytes(sliceBlobs[k])),
                                    malformedRows |-> 0],
                         columns |-> <<>>]]
               acc == foldResults([chunks |-> [k \in 1..n |-> 0],
                                   aggregated |-> [rowCount |-> 0, malformedRows |-> 0],
                                   header |-> <<>>],
                                  rs, [i \in 1..n |-> i - 1])
           IN  acc.aggregated.rowCount = CountRows(SubSeq(file, start + 1, Len(file)))

(***************************************************************************)
(* Claims about binaryChunksFromBlobs and mergeChunksIntoBuffer.           *)
(***************************************************************************)
\* The calls of the shared-memory path: one mergeIntoBuffer task per chunk.
ParallelPath ==
    /\ mgCalls > 0
    /\ Len(mgTasks) = Len(bnChunks)
    /\ \A p \in 1..Len(mgTasks) : mgTasks[p].task = "mergeIntoBuffer"

\* C5: on the shared-memory path the region of chunk k starts at dataOffset
\* plus the sum over the earlier chunks of rowCount x rowLength and is
\* rowCount_k x rowLength bytes long; two regions never overlap, together
\* they are exactly [dataOffset, dataOffset + dataLength), and no byte is
\* written by two tasks, whatever the order in which the tasks run.
C5_DisjointRegions ==
    ParallelPath
        => LET bh == binaryHeader
               size(k) == bnChunks[k].rowCount * bh.rowLength
               first(k) == bh.dataOffset + SumSeq([j \in 1..(k - 1) |-> size(j)])
               region(k) == first(k)..(first(k) + size(k) - 1)
           IN  /\ \A k \in 1..Len(mgTasks) : taskRegion(mgTasks[k], bh) = region(k)
               /\ \A j, k \in 1..Len(mgTasks) :
                     j # k => taskRegion(mgTasks[j], bh) \cap taskRegion(mgTasks[k], bh) = {}
               /\ UNION {taskRegion(mgTasks[k], bh) : k \in 1..Len(mgTasks)}
                     = bh.dataOffset..(bh.dataOffset + bh.dataLength - 1)
               /\ \A b \in 1..Len(written) : written[b] <= 1

\* Two chunks with rows were merged in parallel behind a data offset: each
\* byte of the data was written once.
C5_Witness ==
    /\ ParallelPath
    /\ mgPc = "done"
    /\ binaryHeader.dataOffset > 0
    /\ Len(bnChunks) >= 2
    /\ \A k \in 1..2 : bnChunks[k].rowCount > 0
    /\ \A b \in 1..Len(written) : b > binaryHeader.dataOffset => written[b] = 1

\* C12: whatever the order in which the binary-mode tasks complete, entry k
\* of the returned payload list is the result of the chunk of index k, each
\* column's type tag is the one reported for chunk 0, and the columns are
\* given their offsets in the packing order reported for chunk 0.
C12_IndexedBySequence ==
    bnPc = "done"
        => LET bh == binaryHeader
               first == bnBlobs[1].header
               n == Len(ColumnNames)
               before(i) == SumSeq([j \in 1..(i - 1) |-> bh.columns[first.order[j] + 1].length])
           IN  /\ Len(bnChunks) = Len(bnBlobs)
               /\ \A k \in 1..Len(bnChunks) :
                     /\ bnChunks[k].index = k - 1
                     /\ bnChunks[k].rowCount = bnBlobs[k].header.rowCount
               /\ \A c \in 1..n : bh.columns[c].type = first.types[c]
               /\ \A i \in 1..n :
                     (\A j \in (i + 1)..n : first.order[j] # first.order[i])
                        => bh.columns[first.order[i] + 1].offset = before(i)
               /\ bh.rowLength = before(n + 1)

\* The task of chunk 1 fulfilled before that of chunk 0, the two chunks
\* hold different numbers of rows and report different type tags and
\* packing orders.
C12_Witness ==
    /\ bnPc = "done"
    /\ bnArrival = <<1, 0>>
    /\ bnBlobs[1].header.order = <<1, 0>>
    /\ bnBlobs[2].header.order = <<0, 1>>
    /\ bnBlobs[1].header.types # bnBlobs[2].header.types
    /\ bnBlobs[1].header.rowCount # bnBlobs[2].header.rowCount

\* C19: whatever calls were made before with the same BinaryHeader, a call
\* in which the engine allocates the buffer itself writes from data offset
\* 0, its buffer is dataLength bytes long and the bytes every task writes
\* lie within the buffer.
C19_AllocatedBufferFits ==
    mgCalls > 0 /\ mgBuffer.allocated
        => /\ binaryHeader.dataOffset = 0
           /\ mgBuffer.length = binaryHeader.dataLength
           /\ \A p \in 1..Len(mgTasks) :
                 taskRegion(mgTasks[p], binaryHeader) \subseteq 0..(mgBuffer.length - 1)

\* order lists every column index once.
IsPermutation(order) ==
    {order[i] : i \in 1..Len(order)} = 0..(Len(order) - 1)

\* The widest field of column c over all the rows of the input.
WidestInInput(c) == SetMax({0} \cup {bnRows[r][c] : r \in 1..Len(bnRows)})

\* C6: when the packing order of the first chunk is a permutation of the
\* column indices, each column's width is the maximum over the chunks,
\* rowCount is the sum of the chunks' row counts, rowLength is the sum of
\* the column widths and dataLength is rowLength x rowCount; rowLength and
\* dataLength depend on the rows of the input only, not on the chunking.
C6_HeaderLayout ==
    bnPc = "done" /\ IsPermutation(bnBlobs[1].header.order)
        => LET bh == binaryHeader
               cols == 1..Len(ColumnNames)
           IN  /\ \A c \in cols :
                     bh.columns[c].length =
                        SetMax({bnBlobs[k].header.lengths[c] : k \in 1..Len(bnBlobs)})
               /\ bh.rowCount = SumSeq([k \in 1..Len(bnBlobs) |-> bnBlobs[k].header.rowCount])
               /\ bh.rowLength = SumSeq([c \in cols |-> bh.columns[c].length])
               /\ bh.dataLength = bh.rowLength * bh.rowCount
               /\ bh.rowLength = SumSeq([c \in cols |-> WidestInInput(c)])
               /\ bh.dataLength = SumSeq([c \in cols |-> WidestInInput(c)]) * Len(bnRows)

\* Two chunks, the first packed in the order 1, 0 and narrower than the
\* second in some column.
C6_Witness ==
    /\ bnPc = "done"
    /\ Len(bnBlobs) >= 2
    /\ bnBlobs[1].header.order = <<1, 0>>
    /\ \E c \in 1..Len(ColumnNames) :
          bnBlobs[1].header.lengths[c] > bnBlobs[2].header.lengths[c]
    /\ \E c \in 1..Len(ColumnNames) :
          bnBlobs[1].header.lengths[c] < bnBlobs[2].header.lengths[c]

(***************************************************************************)
(* Claims about the operations that await all their tasks.                 *)
(***************************************************************************)
\* C11: in sliceFile, analyzeBlobs, binaryChunksFromBlobs and the parallel
\* path of mergeChunksIntoBuffer, once a dispatched task failed the call is
\* rejected and has returned nothing: no chunk list, no statistics, no
\* header, no buffer, whatever the other tasks did and in whatever order.
C11_FanOutRejects ==
    /\ slFailed # {} => slPc = "rejected" /\ sliceBlobs = <<>>
    /\ anFailed # {}
          => /\ anPc = "rejected"
             /\ chunks = <<>>
             /\ aggregated = [rowCount |-> 0, malformedRows |-> 0]
             /\ header = newHeader
    /\ bnFailed # {} => bnPc = "rejected" /\ binaryHeader = NoHeader /\ bnChunks = <<>>
    /\ mgFailed # {} /\ ParallelPath => mgPc = "rejected"

\* The profiling task of chunk 1 of three failed after the other two had
\* fulfilled.
C11_Witness ==
    /\ anPc = "rejected"
    /\ Len(anBlobs) = 3
    /\ anFailed = {1}
    /\ anPending = {}

(***************************************************************************)
(* Claims about iterateBlobs.                                              *)
(***************************************************************************)
\* The rows of chunk 0 in row order, then those of chunk 1, ...
RECURSIVE RowsFrom(_)
RowsFrom(k) ==
    IF k >= Len(blobs) THEN <<>>
    ELSE [i \in 1..blobs[k + 1] |-> [chunk |-> k, row |-> i - 1]] \o RowsFrom(k + 1)

\* C1: whatever the pool size and the completion order, the invocations of
\* the row callback are at every moment a prefix of the rows in source order,
\* the second argument counts 0, 1, 2, ..., and once the operation resolved
\* every row was delivered exactly once and none is delivered afterwards.
C1_RowOrder ==
    LET all == RowsFrom(0)
    IN  /\ Len(calls) <= Len(all)
        /\ \A j \in 1..Len(calls) :
              /\ calls[j].chunk = all[j].chunk
              /\ calls[j].row = all[j].row
              /\ calls[j].index = j - 1
        /\ status = "resolved" => Len(calls) = Len(all) /\ callsAtResolve = Len(calls)

\* A later chunk's result is buffered while rows were already delivered.
C1_Witness ==
    /\ status = "pending"
    /\ Len(calls) > 0
    /\ \E r \in results : r > blobIndex

\* C2: with at least one chunk and every task completing successfully, the
\* operation resolves, and while chunks remain unconsumed the next expected
\* one is in flight or buffered.
C2_NextExpectedLive ==
    itPc = "running" /\ blobIndex < Len(blobs)
        => \/ \E p \in inflight : scheduled[p] = blobIndex
           \/ blobIndex \in results

C2_Resolves ==
    /\ []C2_NextExpectedLive
    /\ (Len(blobs) >= 1) ~> (status = "resolved")

\* Resolved with a pool larger than the chunk list.
C2_Witness ==
    /\ status = "resolved"
    /\ Len(blobs) >= 1
    /\ workers > Len(blobs)

\* C3: once a parse task of a chunk failed, the operation is rejected.
C3_FailureRejects ==
    (\E p \in failed : scheduled[p] # NoOptions) => status = "rejected"

\* C14: every dispatched parse task carries a chunk of the chunk list, the
\* chunks are dispatched in ascending order and each once, so the number of
\* dispatched tasks never exceeds the number of chunks and equals it once
\* the operation resolved, for any pool size (stated for a chunk list that
\* is not empty).
C14_OneTaskPerChunk ==
    itPc = "running" /\ Len(blobs) >= 1
        => /\ \A p \in 1..Len(scheduled) : scheduled[p] \in 0..(Len(blobs) - 1)
           /\ \A p \in 1..Len(scheduled) : scheduled[p] = p - 1
           /\ Len(scheduled) <= Len(blobs)
           /\ status = "resolved" => Len(scheduled) = Len(blobs)

\* C15: the number of parse tasks in flight plus the number of results held
\* in the reordering buffer is at most the pool size, at every moment.
C15_WindowBounded ==
    /\ Cardinality(inflight) + Cardinality(results) <= workers
    /\ Cardinality(inflight) <= workers

\* The window is full, with a result buffered, a task in flight and chunks
\* not yet dispatched.
C15_Witness ==
    /\ itPc = "running"
    /\ Cardinality(inflight) + Cardinality(results) = workers
    /\ \E r \in results : r > blobIndex
    /\ inflight # {}
    /\ tasks # <<>>

\* The events that materialize chunk k, and those that unload it.
EventsOf(o, k) == {j \in 1..Len(events) : events[j] = [op |-> o, chunk |-> k]}

\* The chunks materialized and not unloaded after the first j events.
ResidentAfter(j) ==
    {k \in 0..(Len(blobs) - 1) :
        Cardinality({i \in EventsOf("materialize", k) : i <= j})
            > Cardinality({i \in EventsOf("unload", k) : i <= j})}

C20_EmptyListResolves ==
    /\ [](Len(blobs) = 0 => scheduled = <<>> /\ calls = <<>>)
    /\ (Len(blobs) = 0 /\ itPc = "running") ~> (status = "resolved")

====
